---- MODULE Spec2Model ----
(***************************************************************************)
(* check_ntp_time: the sampling session of offset_request, the selection   *)
(* of best_offset_server and the classification done by main.              *)
(*                                                                         *)
(* Units.  The wall clock is read in whole seconds (time(NULL)); the       *)
(* model's gettimeofday() returns the same whole second.  calc_offset      *)
(* halves a sum of whole seconds, so offsets are kept in HALF seconds;      *)
(* the average divides by 1..AVG_NUM, so averages are kept in units of     *)
(* 1/(2*AvgScale) second.  32-bit fixed-point durations are kept in units  *)
(* of 1/65536 second.                                                      *)
(***************************************************************************)
EXTENDS Integers, Sequences, FiniteSets, TLC

(* ------------------------------ bounds --------------------------------- *)
MaxHosts == 2          \* addresses getaddrinfo may return
MaxResponsive == 1     \* descriptors that deliver data in one session
ClockStart == 1        \* time(NULL) at the start of the session (> 0)
MaxJump == 1           \* seconds that may pass between two readings of the clock
MaxSelHosts == 3       \* list length explored for best_offset_server
MaxBuffer == 40        \* check_real: bytes of buffer[] that are modelled
MaxOrdHosts == 3       \* list length explored for the reordered selection
MaxNtPrefix == 2       \* check_nt: triples of the -l list that vary freely
MaxOverrun == 1        \* check_nt: triples followed beyond the end of lvalue_list

(* -------------------------- program constants -------------------------- *)
AVG_NUM == 4
LI_MASK == 192
LI_ALARM == 3
VN_MASK == 56
MODE_MASK == 7
MODE_CLIENT == 3
POLLIN == 1
POLLERR == 8
POLLNVAL == 32
SizeofNtpMessage == 48

(* plugin states (states.h), kept symbolic *)
STATE_OK == "OK"
STATE_WARNING == "WARNING"
STATE_CRITICAL == "CRITICAL"
STATE_UNKNOWN == "UNKNOWN"

(* ------------------------------ bit helpers ---------------------------- *)
Pow2 == [k \in 0 .. 7 |-> CASE k = 0 -> 1 [] k = 1 -> 2 [] k = 2 -> 4 [] k = 3 -> 8
                               [] k = 4 -> 16 [] k = 5 -> 32 [] k = 6 -> 64 [] k = 7 -> 128]

BitOf(x, k) == (x \div Pow2[k]) % 2

RECURSIVE AndBits(_, _, _)
AndBits(a, b, k) ==
    IF k < 0 THEN 0
    ELSE Pow2[k] * (BitOf(a, k) * BitOf(b, k)) + AndBits(a, b, k - 1)

RECURSIVE OrBits(_, _, _)
OrBits(a, b, k) ==
    IF k < 0 THEN 0
    ELSE Pow2[k] * (IF BitOf(a, k) + BitOf(b, k) > 0 THEN 1 ELSE 0) + OrBits(a, b, k - 1)

\* a & b and a | b on the low 8 bits
BitAnd(a, b) == AndBits(a, b, 7)
BitOr(a, b) == OrBits(a, b, 7)

(* ------------------------- flags byte macros --------------------------- *)
LI(x) == BitAnd(x, LI_MASK) \div 64
VN(x) == BitAnd(x, VN_MASK) \div 8
MODE(x) == BitAnd(x, MODE_MASK)
\* variant: the value is not shifted to bits 7..6
LI_SET_NoShift(x, y) == BitOr(x, BitAnd(y, LI_MASK)) % 256

LI_SET(x, y) == BitOr(x, BitAnd(y * 64, LI_MASK)) % 256
VN_SET(x, y) == BitOr(x, BitAnd(y * 8, VN_MASK)) % 256
MODE_SET(x, y) == BitOr(x, BitAnd(y, MODE_MASK)) % 256

(* ------------------------- fixed-point macros -------------------------- *)
\* htons/ntohs on a little-endian host: the two bytes change places
htons(x) == ((x % 256) * 256) + ((x \div 256) % 256)
ntohs(x) == ((x % 256) * 256) + ((x \div 256) % 256)

\* (int8_t) of a byte value
Int8(x) == IF (x % 256) >= 128 THEN (x % 256) - 256 ELSE (x % 256)

\* A 32-bit fixed-point number is the pair of its 16-bit halves as they
\* lie in memory (network order); the result is in units of 1/65536 s.
NTP32asDOUBLE(x) == ntohs(x.l16) * 65536 + ntohs(x.r16)

\* A 64-bit timestamp is the raw value 0 (Zero64, unset) or a nonzero raw
\* value [nonzero |-> TRUE, l32off |-> s] standing for L32 = s + EPOCHDIFF,
\* R32 = 0 (the model clock has no microseconds).  EPOCHDIFF (0x83aa7e80)
\* is kept symbolic: TVtoNTP64 adds it and NTP64asDOUBLE subtracts it.
Zero64 == [nonzero |-> FALSE, l32off |-> 0]
TVtoNTP64(tv_sec) == IF tv_sec = 0 THEN Zero64 ELSE [nonzero |-> TRUE, l32off |-> tv_sec]
NTP64asDOUBLE(n) == IF n.nonzero THEN n.l32off ELSE 0
TVasDOUBLE(tv_sec) == tv_sec

(* ------------------- the conversions at the bit level ------------------ *)
\* The session above keeps whole seconds of the current NTP era and the
\* epoch difference symbolic.  Here the same macros are computed on the
\* 32-bit words: a uint32_t is the pair of its 16-bit halves, a struct
\* timeval is [tv_sec, tv_usec] with 0 <= tv_sec < 2^31, a raw 64-bit
\* timestamp is [l32, r32], the two words as they lie in memory.
U32(hi, lo) == [hi |-> hi, lo |-> lo]
ToU32(n) == U32((n \div 65536) % 65536, n % 65536)

\* a + b and a - b on uint32_t
Add32(a, b) == U32((a.hi + b.hi + ((a.lo + b.lo) \div 65536)) % 65536, (a.lo + b.lo) % 65536)
Sub32(a, b) ==
    U32((a.hi - b.hi - (IF a.lo < b.lo THEN 1 ELSE 0) + 65536) % 65536,
        (a.lo - b.lo + 65536) % 65536)
Less32(a, b) == a.hi < b.hi \/ (a.hi = b.hi /\ a.lo < b.lo)

\* htonl/ntohl on a little-endian host: the four bytes are reversed
htonl(x) == U32(htons(x.lo), htons(x.hi))
ntohl(x) == U32(ntohs(x.lo), ntohs(x.hi))

\* #define EPOCHDIFF 0x83aa7e80UL
EPOCHDIFF == U32(33706, 32384)

Raw64Zero == [l32 |-> U32(0, 0), r32 |-> U32(0, 0)]

\* (uint64_t)((4294.967296 * tv_usec) + .5): 2^32/10^6 = 2^26/15625, the
\* product is formed in pieces that stay below 2^31
UsecToFrac(usec) ==
    LET q == usec \div 15625
        a == (usec % 15625) * 8192
        tail == (2 * ((a % 15625) * 8192) + 15625) \div 31250
        rest == ((a \div 15625) * 8192) + tail
    IN  U32(((q * 1024) + (rest \div 65536)) % 65536, rest % 65536)

\* (int)(0.5 + (double)(R32 / 4294.967296))
FracToUsec(r) == ((r.hi * 15625) + ((r.lo * 15625) \div 65536) + 512) \div 1024

\* 0.5 + R32 / 42.94967296, in units of 1e-8 s, rounded down
FracToE8(r) ==
    LET t2 == (r.hi % 256) * 390625
        lh == (r.lo \div 256) * 390625
        c == (r.lo % 256) * 390625
    IN  ((r.hi \div 256) * 390625) + (t2 \div 256) + (lh \div 65536)
          + ((((t2 % 256) * 65536) + ((lh % 65536) * 256) + c + 8388608) \div 16777216)

\* TVtoNTP64(t, n)
TVtoNTP64_fixed(t) ==
    IF t.tv_usec = 0 /\ t.tv_sec = 0 THEN Raw64Zero
    ELSE [l32 |-> htonl(Add32(ToU32(t.tv_sec), EPOCHDIFF)),
          r32 |-> htonl(UsecToFrac(t.tv_usec))]

\* ntohl(L32(n)) - EPOCHDIFF in unsigned long (64 bits): below EPOCHDIFF the
\* difference wraps; [wrapped, mag] is mag, or 2^64 - mag when wrapped
SecondsOf(n) ==
    IF Less32(ntohl(n.l32), EPOCHDIFF)
    THEN [wrapped |-> TRUE, mag |-> Sub32(EPOCHDIFF, ntohl(n.l32))]
    ELSE [wrapped |-> FALSE, mag |-> Sub32(ntohl(n.l32), EPOCHDIFF)]

\* NTP64toTV(n, t); a wrapped tv_sec is the negative number -mag (time_t is signed)
NTP64toTV_fixed(n) ==
    IF n = Raw64Zero
    THEN [tv_sec |-> [wrapped |-> FALSE, mag |-> U32(0, 0)], tv_usec |-> 0]
    ELSE [tv_sec |-> SecondsOf(n), tv_usec |-> FracToUsec(ntohl(n.r32))]

\* NTP64asDOUBLE(n): the seconds and the fraction in units of 1e-8 s; a
\* wrapped difference is a double near 1.8e19
NTP64asDOUBLE_fixed(n) ==
    IF n = Raw64Zero
    THEN [sec |-> [wrapped |-> FALSE, mag |-> U32(0, 0)], e8 |-> 0]
    ELSE [sec |-> SecondsOf(n), e8 |-> FracToE8(ntohl(n.r32))]

(* ------------------------------ messages ------------------------------- *)
Fix32(hi, lo) == [l16 |-> hi, r16 |-> lo]

ZeroMessage ==
    [flags |-> 0, stratum |-> 0, poll |-> 0, precision |-> 0,
     rtdelay |-> Fix32(0, 0), rtdisp |-> Fix32(0, 0), refid |-> 0, refts |-> Zero64,
     origts |-> Zero64, rxts |-> Zero64, txts |-> Zero64]

\* setup_request: memset, LI/VN/MODE, poll, precision, the left halves of
\* delay and dispersion, txts = now
setup_request(now) ==
    [ZeroMessage EXCEPT
        !.flags = MODE_SET(VN_SET(LI_SET(0, LI_ALARM), 4), MODE_CLIENT),
        !.poll = 4,
        !.precision = Int8(250),
        !.rtdelay = Fix32(htons(1), 0),
        !.rtdisp = Fix32(htons(1), 0),
        !.txts = TVtoNTP64(now)]

\* variant: a sign slip in the second difference
calc_offset_SignSlip(message, time_value) ==
    LET client_tx == NTP64asDOUBLE(message.origts)
        peer_rx == NTP64asDOUBLE(message.rxts)
        peer_tx == NTP64asDOUBLE(message.txts)
        client_rx == TVasDOUBLE(time_value)
    IN  (peer_tx - client_rx) + (peer_rx + client_tx)

\* calc_offset, in half seconds (the division by 2 is the unit)
calc_offset(message, time_value) ==
    LET client_tx == NTP64asDOUBLE(message.origts)
        peer_rx == NTP64asDOUBLE(message.rxts)
        peer_tx == NTP64asDOUBLE(message.txts)
        client_rx == TVasDOUBLE(time_value)
    IN  (peer_tx - client_rx) + (peer_rx - client_tx)

\* read(fd, &req[i], sizeof(ntp_message)): the first d.len bytes of the
\* buffer are replaced, the rest keeps what the buffer held before.
ReadInto(old, d) ==
    [flags   |-> IF d.len >= 1 THEN d.flags ELSE old.flags,
     stratum |-> IF d.len >= 2 THEN d.stratum ELSE old.stratum,
     poll    |-> IF d.len >= 3 THEN d.poll ELSE old.poll,
     precision |-> IF d.len >= 4 THEN d.precision ELSE old.precision,
     rtdelay |-> IF d.len >= 8 THEN d.rtdelay ELSE old.rtdelay,
     rtdisp  |-> IF d.len >= 12 THEN d.rtdisp ELSE old.rtdisp,
     refid   |-> IF d.len >= 16 THEN d.refid ELSE old.refid,
     refts   |-> IF d.len >= 24 THEN d.refts ELSE old.refts,
     origts  |-> IF d.len >= 32 THEN d.origts ELSE old.origts,
     rxts    |-> IF d.len >= 40 THEN d.rxts ELSE old.rxts,
     txts    |-> IF d.len >= 48 THEN d.txts ELSE old.txts]

\* variant: the stratum is not looked at
Discarded_AlarmOnly(srv) == LI(srv.flags) = LI_ALARM

\* variant: the leap indicator is not looked at
Discarded_StratumOnly(srv) == srv.stratum = 0

(* --------------------------- best_offset_server ------------------------ *)
\* lines 272 and 279: the two tests that discard a peer
Discarded(srv) == srv.stratum = 0 \/ LI(srv.flags) = LI_ALARM

\* variant: an equal delay replaces the best
BetterThan_DelayTie(cand, best) ==
    /\ cand.stratum <= best.stratum
    /\ cand.rtdisp <= best.rtdisp
    /\ cand.rtdelay <= best.rtdelay

\* variant: only the stratum is compared
BetterThan_StratumOnly(cand, best) == cand.stratum <= best.stratum

\* lines 296-302: the candidate replaces the best one seen so far
BetterThan(cand, best) ==
    /\ cand.stratum <= best.stratum
    /\ cand.rtdisp <= best.rtdisp
    /\ cand.rtdelay < best.rtdelay

\* the for loop, from index cserver with the running best
RECURSIVE BestLoop(_, _, _, _)
BestLoop(slist, nservers, cserver, best_server) ==
    IF cserver >= nservers THEN best_server
    ELSE IF Discarded(slist[cserver])
         THEN BestLoop(slist, nservers, cserver + 1, best_server)
    ELSE IF best_server = -1
         THEN BestLoop(slist, nservers, cserver + 1, cserver)
    ELSE IF BetterThan(slist[cserver], slist[best_server])
         THEN BestLoop(slist, nservers, cserver + 1, cserver)
    ELSE BestLoop(slist, nservers, cserver + 1, best_server)

\* variant: index 0 is taken for "none"
BestResult_Positive(best_server) == IF best_server > 0 THEN best_server ELSE -1

\* lines 311-316
BestResult(best_server) == IF best_server >= 0 THEN best_server ELSE -1

best_offset_server(slist, nservers) == BestResult(BestLoop(slist, nservers, 0, -1))

(* ------------------------------- state --------------------------------- *)
VARIABLES
    pc,                \* position of the process
    quiet,             \* config.quiet
    socket_timeout,    \* netutils socket_timeout (-t)
    time_offset,       \* config.time_offset (-o)
    num_hosts,         \* addresses returned by getaddrinfo
    delivers,          \* environment: what the descriptor in ufds[i] delivers
    ufds,              \* struct pollfd per peer: [fd, events]
    req,               \* ntp_message buffer per peer
    servers,           \* ntp_server_results per peer
    start_ts, now_time, servers_completed, one_read,
    writes,            \* history: indices of offset[] written, per peer
    pass,              \* history: the peers written to and reported readable in the last pass
    oob,               \* history: a write outside offset[0..AVG_NUM-1]
    best_index, offset_result, avg_offset,
    result, output, exit_state, die_message,
    addresses,         \* the list of getaddrinfo is allocated (not yet freed)
    open_socks,        \* descriptors of socklist[] that are open (not yet closed)
    call,              \* a stand-alone call of a function: its arguments and result
    real,              \* check_real: the locals of its main
    nt,                \* check_nt: the locals of its main in the CPULOAD case
    sel_list, sel_index   \* input and result of a stand-alone selection

cfgVars == <<quiet, socket_timeout, time_offset>>
netVars == <<num_hosts, delivers, ufds>>
loopVars == <<req, servers, start_ts, now_time, servers_completed, one_read, writes, pass>>
endVars == <<best_index, offset_result, avg_offset, result, output>>
dieVars == <<exit_state, die_message>>
selVars == <<sel_list, sel_index>>
resVars == <<addresses, open_socks>>
fnVars == <<call>>
realVars == <<real>>
ntVars == <<nt>>
\* the variables of the stand-alone specifications, idle in a session
idleVars == <<selVars, fnVars, realVars, ntVars>>
vars == <<pc, cfgVars, netVars, loopVars, oob, endVars, dieVars, resVars, idleVars>>

Peers == 0 .. (num_hosts - 1)

(* ------------------------- environment inputs -------------------------- *)
SocketTimeouts == {4}
TimeOffsets == {1}
BadFd == 1000                   \* a descriptor number that is not open
StdinFd == 0

NoStatus == "none"
NotSelected == -2               \* best_index before the selection ran

\* what malloc'ed, never written memory may hold
JunkMessage ==
    [flags |-> 36, stratum |-> 1, poll |-> 0, precision |-> 0,
     rtdelay |-> Fix32(0, 2), rtdisp |-> Fix32(0, 1), refid |-> 0, refts |-> Zero64,
     origts |-> Zero64, rxts |-> Zero64, txts |-> Zero64]
GarbageMessages == {ZeroMessage, JunkMessage}
\* a buffer that was allocated and never written
Uninitialized == [uninit |-> TRUE]
GarbagePollfds == {[fd |-> BadFd, events |-> 0], [fd |-> StdinFd, events |-> POLLIN]}

\* headers of the datagrams a descriptor may deliver: a synchronised
\* server (li=0 vn=4 mode=4) and one with leap indicator ALARM
RespHeaders ==
    {[flags |-> 36, stratum |-> 1], [flags |-> 228, stratum |-> 1]}
ShortHeaders == {[flags |-> 36, stratum |-> 1]}
ShortLens == {2}                \* datagram lengths below sizeof(ntp_message)
DeliveryKinds == {"nothing", "full", "short"}
Skews == {0}                    \* peer clock minus local clock, seconds

FullDatagrams(now) ==
    {[len |-> SizeofNtpMessage, flags |-> h.flags, stratum |-> h.stratum,
      poll |-> 4, precision |-> Int8(250),
      rtdelay |-> Fix32(0, 3), rtdisp |-> Fix32(0, 1), refid |-> 0, refts |-> Zero64,
      origts |-> TVtoNTP64(now), rxts |-> TVtoNTP64(now + k), txts |-> TVtoNTP64(now + k)] :
        h \in RespHeaders, k \in Skews}
ShortDatagrams ==
    {[len |-> n, flags |-> h.flags, stratum |-> h.stratum,
      poll |-> 0, precision |-> 0,
      rtdelay |-> Fix32(0, 0), rtdisp |-> Fix32(0, 0), refid |-> 0, refts |-> Zero64,
      origts |-> Zero64, rxts |-> Zero64, txts |-> Zero64] :
        n \in ShortLens, h \in ShortHeaders}
NoDatagram ==
    [len |-> -1, flags |-> 0, stratum |-> 0, poll |-> 0, precision |-> 0,
     rtdelay |-> Fix32(0, 0), rtdisp |-> Fix32(0, 0), refid |-> 0, refts |-> Zero64,
     origts |-> Zero64, rxts |-> Zero64, txts |-> Zero64]

ZeroServer ==
    [waiting |-> 0, num_responses |-> 0, stratum |-> 0, rtdelay |-> 0, rtdisp |-> 0,
     offset |-> [k \in 0 .. (AVG_NUM - 1) |-> 0], flags |-> 0]

(* ------------------------------ helpers -------------------------------- *)
AvgScale == 12                  \* lcm of 1..AVG_NUM: keeps the mean integral
NaN == "nan"

Abs(x) == IF x < 0 THEN -x ELSE x

RECURSIVE SumOffsets(_, _)
SumOffsets(offset, n) == IF n <= 0 THEN 0 ELSE offset[n - 1] + SumOffsets(offset, n - 1)

\* variant: the sum is divided by AVG_NUM
AverageOffset_AllSlots(srv) ==
    IF srv.num_responses = 0 THEN NaN
    ELSE (SumOffsets(srv.offset, srv.num_responses) * AvgScale) \div AVG_NUM

\* lines 469-472: the mean of offset[0 .. num_responses-1]
AverageOffset(srv) ==
    IF srv.num_responses = 0 THEN NaN
    ELSE (SumOffsets(srv.offset, srv.num_responses) * AvgScale) \div srv.num_responses

\* variants of the loop condition: the whole timeout as budget; a strict test
LoopCondition_WholeTimeout(completed, nhosts, now, start, timeout) ==
    completed < nhosts /\ now - start <= timeout

LoopCondition_Strict(completed, nhosts, now, start, timeout) ==
    completed < nhosts /\ now - start < timeout \div 2

\* while (servers_completed < num_hosts && now_time - start_ts <= socket_timeout / 2)
LoopCondition(completed, nhosts, now, start, timeout) ==
    completed < nhosts /\ now - start <= timeout \div 2

\* line 405: the peer may be sent a request
SendEligible(srv, now) == srv.waiting < now /\ srv.num_responses < AVG_NUM

\* variant: one response too many is accepted
ReadEligible_OneMore(revents, srv) == BitAnd(revents, POLLIN) # 0 /\ srv.num_responses <= AVG_NUM

\* line 428: the peer is read
ReadEligible(revents, srv) == BitAnd(revents, POLLIN) # 0 /\ srv.num_responses < AVG_NUM

\* variant: the scan does not stop at the first eligible peer; the last one is served
SendTarget_Last(srvs, nhosts, now) ==
    LET el == {i \in 0 .. (nhosts - 1) : SendEligible(srvs[i], now)}
    IN  IF el = {} THEN -1 ELSE CHOOSE i \in el : \A j \in el : i >= j

\* lines 404-417: the first eligible peer, or -1
SendTarget(srvs, nhosts, now) ==
    LET el == {i \in 0 .. (nhosts - 1) : SendEligible(srvs[i], now)}
    IN  IF el = {} THEN -1 ELSE CHOOSE i \in el : \A j \in el : i <= j

SockFd(i) == 3 + i

\* what poll() may report for one entry
PollRevents(pfd, kind) ==
    IF pfd.fd < 0 THEN {0}
    ELSE IF pfd.fd = BadFd THEN {POLLNVAL}
    ELSE IF pfd.fd = StdinFd
         THEN IF BitAnd(pfd.events, POLLIN) # 0 /\ kind # "nothing" THEN {0, POLLIN} ELSE {0}
    ELSE IF kind # "nothing" THEN {0, POLLIN} ELSE {0, POLLERR}

\* what one poll() and the reads after it may meet at peer i: the revents
\* reported and, where the peer is read, the data at the descriptor
PeerEvents(pfd, kind, now) ==
    {[revents |-> r, datagram |-> d, junk |-> g] :
        r \in PollRevents(pfd, kind),
        d \in (IF kind = "full" THEN FullDatagrams(now) ELSE {})
                \cup (IF kind = "short" THEN ShortDatagrams ELSE {}) \cup {NoDatagram},
        g \in GarbageMessages}

IsShort(d) == d.len >= 0 /\ d.len < SizeofNtpMessage

\* one event per peer; data exactly where the peer is read, and a choice
\* of buffer content exactly where a never written buffer shows through a
\* short read
RECURSIVE EventVectors(_, _, _, _, _, _)
EventVectors(k, pfds, kinds, srvs, bufs, now) ==
    IF k = 0 THEN {<<>>}
    ELSE {Append(v, e) :
            v \in EventVectors(k - 1, pfds, kinds, srvs, bufs, now),
            e \in {x \in PeerEvents(pfds[k - 1], kinds[k - 1], now) :
                     /\ (x.datagram = NoDatagram) <=> ~ReadEligible(x.revents, srvs[k - 1])
                     /\ (x.junk # ZeroMessage) =>
                            (IsShort(x.datagram) /\ bufs[k - 1] = Uninitialized)}}

\* evaluate once
Value(x) == CHOOSE y \in {x} : TRUE

\* lines 429-452: one response read for peer i
ReadOne(st, i, d, recv_time, toff) ==
    LET msg == Value(ReadInto(st.req[i], d))
        old == Value(st.servers[i])
        respnum == old.num_responses
        sample == calc_offset(msg, recv_time) + 2 * toff
        inb == respnum \in 0 .. (AVG_NUM - 1)
        srv == [waiting |-> 0,
                num_responses |-> respnum + 1,
                stratum |-> msg.stratum,
                rtdelay |-> NTP32asDOUBLE(msg.rtdelay),
                rtdisp |-> NTP32asDOUBLE(msg.rtdisp),
                offset |-> IF inb THEN [old.offset EXCEPT ![respnum] = sample]
                           ELSE old.offset,
                flags |-> msg.flags]
    IN  [req |-> [st.req EXCEPT ![i] = msg],
         servers |-> [st.servers EXCEPT ![i] = srv],
         servers_readable |-> st.servers_readable - 1,
         one_read |-> TRUE,
         servers_completed |-> st.servers_completed + (IF respnum + 1 = AVG_NUM THEN 1 ELSE 0),
         writes |-> [st.writes EXCEPT ![i] = @ \cup {respnum}],
         oob |-> st.oob \/ ~inb]

\* lines 427-454: for (i = 0; servers_readable && i < num_hosts; i++);
\* ev[i + 1] is what the descriptor of peer i reports and delivers
RECURSIVE ReadLoop(_, _, _, _, _, _)
ReadLoop(st, i, nhosts, ev, recv_time, toff) ==
    IF ~(st.servers_readable # 0 /\ i < nhosts) THEN st
    ELSE IF ReadEligible(ev[i + 1].revents, st.servers[i])
         THEN ReadLoop(Value(ReadOne(st, i, ev[i + 1].datagram, recv_time, toff)),
                       i + 1, nhosts, ev, recv_time, toff)
    ELSE ReadLoop(st, i + 1, nhosts, ev, recv_time, toff)

\* get_status (utils): thresholds in seconds, value in 1/(2*AvgScale) s
Thresholds == [warning |-> 1, critical |-> 2]
get_status(value, th) ==
    IF value >= th.critical * 2 * AvgScale THEN STATE_CRITICAL
    ELSE IF value >= th.warning * 2 * AvgScale THEN STATE_WARNING
    ELSE STATE_OK

\* variant: the test is inverted
NoResponseTest_Inverted(any_read) == any_read

\* line 458: if (!one_read)
NoResponseTest(any_read) == ~any_read

NoResponseMessage == "NTP CRITICAL: No response from NTP server"

\* variant: the thresholds are applied whatever offset_request reported
main_result_AlwaysThresholds(q, offres, off) == get_status(Abs(off), Thresholds)

\* main, lines 617-621
main_result(q, offres, off) ==
    IF offres = STATE_UNKNOWN
    THEN (IF ~q THEN STATE_UNKNOWN ELSE STATE_CRITICAL)
    ELSE get_status(Abs(off), Thresholds)

\* main, lines 640-646: the text after the status word, and the perfdata
main_output(offres, off) ==
    IF offres = STATE_UNKNOWN
    THEN [text |-> "Offset unknown", perfdata |-> FALSE]
    ELSE [text |-> "Offset", offset |-> off, perfdata |-> TRUE]

NoOutput == [text |-> "", perfdata |-> FALSE]

(* ------------------------------- Init ---------------------------------- *)
EmptyFn == [i \in {} |-> 0]
NoPass == [sent |-> {}, readable |-> {}]

SessionBlank ==
    /\ num_hosts = 0
    /\ delivers = EmptyFn
    /\ ufds = EmptyFn
    /\ req = EmptyFn
    /\ servers = EmptyFn
    /\ start_ts = 0
    /\ now_time = 0
    /\ servers_completed = 0
    /\ one_read = FALSE
    /\ writes = EmptyFn
    /\ pass = NoPass
    /\ oob = FALSE
    /\ best_index = NotSelected
    /\ offset_result = STATE_OK
    /\ avg_offset = 0
    /\ result = STATE_OK
    /\ output = NoOutput
    /\ exit_state = NoStatus
    /\ die_message = ""
    /\ addresses = FALSE
    /\ open_socks = {}

SelBlank ==
    /\ sel_list = EmptyFn
    /\ sel_index = NotSelected

NoCall == [fn |-> "none"]
FnBlank == call = NoCall

NoReal == [at |-> "none"]
RealBlank == real = NoReal

NoNt == [at |-> "none"]
NtBlank == nt = NoNt

\* the state after process_arguments
Init ==
    /\ pc = "resolve"
    /\ quiet \in BOOLEAN
    /\ socket_timeout \in SocketTimeouts
    /\ time_offset \in TimeOffsets
    /\ SessionBlank
    /\ SelBlank
    /\ FnBlank
    /\ RealBlank
    /\ NtBlank

(* ------------------------------ actions -------------------------------- *)
\* the locals of offset_request and its arrays are no more: after the
\* cleanup of lines 475-483 and the return, or after exit()
SessionOver ==
    /\ num_hosts' = 0
    /\ delivers' = EmptyFn
    /\ ufds' = EmptyFn
    /\ req' = EmptyFn
    /\ servers' = EmptyFn
    /\ start_ts' = 0
    /\ now_time' = 0
    /\ servers_completed' = 0
    /\ one_read' = FALSE
    /\ writes' = EmptyFn
    /\ pass' = NoPass

\* die(): print the message and exit with the state; nothing is closed or
\* freed by the program on this path
Die(state, message) ==
    /\ pc' = "done"
    /\ exit_state' = state
    /\ die_message' = message
    /\ SessionOver
    /\ UNCHANGED <<oob, endVars>>

\* what getaddrinfo returns: 0 with a list of one or more addresses, or an
\* error code (EAI_NONAME, EAI_AGAIN) with no list
GaResults == {0, -2, -3}
ListLengths(ga_result) == IF ga_result = 0 THEN 1 .. MaxHosts ELSE {0}

\* variant: the result of getaddrinfo is not looked at
ResolveFailed_Ignored(ga_result) == FALSE

\* line 335: if (ga_result != 0)
ResolveFailed(ga_result) == ga_result # 0

ResolveMessage == "error getting address"

\* lines 334-343: getaddrinfo and the count of addresses
Resolve ==
    /\ pc = "resolve"
    /\ \E ga_result \in GaResults :
       \E n \in ListLengths(ga_result) :
          IF ResolveFailed(ga_result)
          THEN /\ Die(STATE_UNKNOWN, ResolveMessage)
               /\ UNCHANGED resVars
          ELSE /\ num_hosts' = n
               /\ addresses' = (n > 0)
               /\ pc' = "alloc"
               /\ UNCHANGED <<delivers, ufds, loopVars, oob, endVars, dieVars, open_socks>>
    /\ UNCHANGED <<cfgVars, idleVars>>

\* lines 345-366: the four arrays; servers is zeroed, the others are not
Allocate ==
    /\ pc = "alloc"
    /\ \/ \E m \in {"can not allocate ntp message array", "can not allocate socket array",
                    "can not allocate server array"} : Die(STATE_UNKNOWN, m)
       \/ /\ req' = [i \in Peers |-> Uninitialized]
          /\ servers' = [i \in Peers |-> ZeroServer]
          /\ writes' = [i \in Peers |-> {}]
          /\ pc' = "sockets"
          /\ UNCHANGED <<netVars, start_ts, now_time, servers_completed, one_read, pass, oob,
                         endVars, dieVars>>
    /\ UNCHANGED <<cfgVars, idleVars, resVars>>

\* lines 369-396: socket() and connect() per address; ufds[i] is written
\* only when connect() succeeded.  The first reading of the clock.
OpenSockets ==
    /\ pc = "sockets"
    /\ \/ \* socket() failed for address k: the sockets before it stay open
          /\ Die(STATE_UNKNOWN, "can not create new socket")
          /\ \E k \in Peers : open_socks' = {SockFd(i) : i \in 0 .. (k - 1)}
       \/ /\ \E pfds \in [Peers -> {[fd |-> SockFd(0), events |-> POLLIN]} \cup GarbagePollfds],
                 kinds \in [Peers -> DeliveryKinds] :
                /\ \A i \in Peers : pfds[i].fd = BadFd => kinds[i] = "nothing"
                /\ \A i \in Peers : pfds[i].fd = StdinFd => kinds[i] = "full"
                /\ Cardinality({i \in Peers : kinds[i] # "nothing"}) <= MaxResponsive
                /\ ufds' = [i \in Peers |->
                               IF pfds[i].fd = SockFd(0) THEN [fd |-> SockFd(i), events |-> POLLIN]
                               ELSE pfds[i]]
                /\ delivers' = kinds
          /\ open_socks' = {SockFd(i) : i \in Peers}
          /\ start_ts' = ClockStart
          /\ now_time' = ClockStart
          /\ pc' = "loop"
          /\ UNCHANGED <<num_hosts, req, servers, servers_completed, one_read, writes, pass, oob,
                         endVars, dieVars>>
    /\ UNCHANGED <<cfgVars, idleVars, addresses>>

\* lines 397-456: one pass of the while loop; time(NULL) at line 402 reads
\* the second of the previous reading or a later one
Iteration ==
    /\ pc = "loop"
    /\ LoopCondition(servers_completed, num_hosts, now_time, start_ts, socket_timeout)
    /\ \E now \in now_time .. (now_time + MaxJump) :
       \E target \in {SendTarget(servers, num_hosts, now)} :
       \E req1 \in {IF target = -1 THEN req ELSE [req EXCEPT ![target] = setup_request(now)]} :
       \E servers1 \in {IF target = -1 THEN servers ELSE [servers EXCEPT ![target].waiting = now]} :
           \/ \* poll() returned -1
              Die(STATE_UNKNOWN, "communication errors")
           \/ \E ev \in EventVectors(num_hosts, ufds, delivers, servers1, req1, now) :
              \E st \in {ReadLoop(
                            [req |-> [i \in Peers |->
                                        IF req1[i] = Uninitialized /\ ev[i + 1].datagram # NoDatagram
                                        THEN ev[i + 1].junk ELSE req1[i]],
                             servers |-> servers1,
                             servers_readable |->
                                 Cardinality({i \in Peers : ev[i + 1].revents # 0}),
                             one_read |-> one_read,
                             servers_completed |-> servers_completed,
                             writes |-> writes, oob |-> oob],
                            0, num_hosts, ev, now, time_offset)} :
                   /\ now_time' = now
                   /\ req' = st.req
                   /\ servers' = st.servers
                   /\ one_read' = st.one_read
                   /\ servers_completed' = st.servers_completed
                   /\ writes' = st.writes
                   /\ pass' = [sent |-> IF target = -1 THEN {} ELSE {target},
                               readable |-> {i \in Peers : BitAnd(ev[i + 1].revents, POLLIN) # 0}]
                   /\ oob' = st.oob
                   /\ UNCHANGED <<pc, netVars, start_ts, endVars, dieVars>>
    /\ UNCHANGED <<cfgVars, idleVars, resVars>>

\* the while condition is false
LoopExit ==
    /\ pc = "loop"
    /\ ~LoopCondition(servers_completed, num_hosts, now_time, start_ts, socket_timeout)
    /\ pc' = "after_loop"
    /\ UNCHANGED <<cfgVars, netVars, loopVars, oob, endVars, dieVars, idleVars, resVars>>

\* lines 458-489: the rest of offset_request
FinishRequest ==
    /\ pc = "after_loop"
    /\ IF NoResponseTest(one_read)
       THEN Die(STATE_CRITICAL, NoResponseMessage) /\ UNCHANGED resVars
       ELSE \E bi \in {best_offset_server(servers, num_hosts)} :
                /\ best_index' = bi
                /\ offset_result' = IF bi < 0 THEN STATE_UNKNOWN ELSE offset_result
                /\ avg_offset' = IF bi < 0 THEN 0 ELSE AverageOffset(servers[bi])
                /\ open_socks' = {}
                /\ addresses' = FALSE
                /\ SessionOver
                /\ pc' = "main"
                /\ UNCHANGED <<oob, result, output, dieVars>>
    /\ UNCHANGED <<cfgVars, idleVars>>

\* main, lines 617-652
Classify ==
    /\ pc = "main"
    /\ result' = main_result(quiet, offset_result, avg_offset)
    /\ output' = main_output(offset_result, avg_offset)
    /\ exit_state' = result'
    /\ pc' = "done"
    /\ UNCHANGED <<cfgVars, netVars, loopVars, oob, best_index, offset_result, avg_offset,
                   die_message, idleVars, resVars>>

Next == Resolve \/ Allocate \/ OpenSockets \/ Iteration \/ LoopExit \/ FinishRequest \/ Classify

Spec == Init /\ [][Next]_vars

\* Iteration is enabled (its poll() may fail) exactly where the loop
\* condition holds.  The clock keeps advancing: a loop that goes on reads a
\* later second again and again.  This is weak fairness of the passes of
\* the loop that read a later second, written out.
IterationEnabled ==
    pc = "loop" /\ LoopCondition(servers_completed, num_hosts, now_time, start_ts, socket_timeout)
ClockAdvances == []<>(~IterationEnabled) \/ []<><<pc = "loop" /\ now_time' > now_time>>_vars

FairSpec ==
    /\ Spec
    /\ WF_vars(Resolve) /\ WF_vars(Allocate) /\ WF_vars(OpenSockets)
    /\ ClockAdvances /\ WF_vars(LoopExit)
    /\ WF_vars(FinishRequest) /\ WF_vars(Classify)

(* ------------------ best_offset_server on arbitrary lists -------------- *)
SelStrata == {0, 1, 2}
SelFlags == {36, 228}
SelDisps == {0, 1}
SelDelays == {0, 3, 5}
SelPeers ==
    {[stratum |-> st, flags |-> f, rtdisp |-> dp, rtdelay |-> dl] :
        st \in SelStrata, f \in SelFlags, dp \in SelDisps, dl \in SelDelays}

SelLen == Cardinality(DOMAIN sel_list)

SelInit ==
    /\ pc = "select"
    /\ quiet = FALSE
    /\ socket_timeout \in SocketTimeouts
    /\ time_offset \in TimeOffsets
    /\ SessionBlank
    /\ FnBlank
    /\ RealBlank
    /\ NtBlank
    /\ sel_list = EmptyFn
    /\ sel_index = best_offset_server(sel_list, 0)

\* one more result in the list, and the selection over the longer list
SelAppend ==
    /\ pc = "select"
    /\ SelLen < MaxSelHosts
    /\ \E p \in SelPeers :
          sel_list' = [i \in 0 .. SelLen |-> IF i < SelLen THEN sel_list[i] ELSE p]
    /\ sel_index' = best_offset_server(sel_list', SelLen + 1)
    /\ UNCHANGED <<pc, cfgVars, netVars, loopVars, oob, endVars, dieVars, resVars, fnVars, realVars, ntVars>>

SelNext == SelAppend

SelSpec == SelInit /\ [][SelNext]_vars

(* ------------------ best_offset_server on reordered lists ------------- *)
OrdStrata == {1, 2}
OrdDisps == {0, 1}
OrdDelays == {3, 5}
\* results of peers that answered, and the zeroed result of one that did not
OrdPeers ==
    {[stratum |-> st, flags |-> 36, rtdisp |-> dp, rtdelay |-> dl] :
        st \in OrdStrata, dp \in OrdDisps, dl \in OrdDelays}
    \cup {[stratum |-> 0, flags |-> 0, rtdisp |-> 0, rtdelay |-> 0]}

Orderings(n) ==
    {f \in [0 .. (n - 1) -> 0 .. (n - 1)] : \A i, j \in 0 .. (n - 1) : f[i] = f[j] => i = j}

OrdInit ==
    /\ pc = "order"
    /\ quiet = FALSE
    /\ socket_timeout \in SocketTimeouts
    /\ time_offset \in TimeOffsets
    /\ SessionBlank
    /\ FnBlank
    /\ RealBlank
    /\ NtBlank
    /\ sel_list = EmptyFn
    /\ sel_index = best_offset_server(sel_list, 0)

OrdIdle ==
    UNCHANGED <<pc, cfgVars, netVars, loopVars, oob, endVars, dieVars, resVars, realVars, ntVars>>

\* one more result in the list, and the selection over the longer list
OrdAppend ==
    /\ pc = "order"
    /\ SelLen < MaxOrdHosts
    /\ \E p \in OrdPeers :
          sel_list' = [i \in 0 .. SelLen |-> IF i < SelLen THEN sel_list[i] ELSE p]
    /\ sel_index' = best_offset_server(sel_list', SelLen + 1)
    /\ call' = NoCall
    /\ OrdIdle

\* best_offset_server(slist, nservers) on the same results in another order
OrdReorder ==
    /\ pc = "order"
    /\ \E f \in Orderings(SelLen) :
       \E slist \in {[i \in 0 .. (SelLen - 1) |-> sel_list[f[i]]]} :
          call' = [fn |-> "best_offset_server", slist |-> slist, nservers |-> SelLen,
                   index |-> best_offset_server(slist, SelLen)]
    /\ UNCHANGED selVars
    /\ OrdIdle

OrdNext == OrdAppend \/ OrdReorder

OrdSpec == OrdInit /\ [][OrdNext]_vars

(* ------------------- the functions called on their own ----------------- *)
FnClock == {1, 2, 1793505600}                 \* gettimeofday, whole seconds
FnSeconds == {0, 1, 1000000000, 1793505600, 2085978495, 2085978496, 2085978497, 2147483647}
FnUsecs == {0, 1, 15624, 499999, 500000, 999999}
FnStamps == {0, 1, 2, 5}                      \* seconds; 0 is the unset timestamp

FnInit ==
    /\ pc = "fn"
    /\ quiet = FALSE
    /\ socket_timeout \in SocketTimeouts
    /\ time_offset \in TimeOffsets
    /\ SessionBlank
    /\ SelBlank
    /\ FnBlank
    /\ RealBlank
    /\ NtBlank

FnIdle ==
    UNCHANGED <<pc, cfgVars, netVars, loopVars, oob, endVars, dieVars, resVars, selVars, realVars, ntVars>>

\* setup_request(&message) at the time now
CallSetupRequest ==
    /\ pc = "fn"
    /\ \E now \in FnClock :
          call' = [fn |-> "setup_request", now |-> now, message |-> setup_request(now)]
    /\ FnIdle

\* TVtoNTP64(t, n), then NTP64toTV(n, tv) and NTP64asDOUBLE(n)
CallConvert ==
    /\ pc = "fn"
    /\ \E sec \in FnSeconds, usec \in FnUsecs :
       \E raw \in {TVtoNTP64_fixed([tv_sec |-> sec, tv_usec |-> usec])} :
          call' = [fn |-> "TVtoNTP64", t |-> [tv_sec |-> sec, tv_usec |-> usec], raw |-> raw,
                   tv |-> NTP64toTV_fixed(raw), double |-> NTP64asDOUBLE_fixed(raw)]
    /\ FnIdle

\* calc_offset(&message, &time_value), and the same call with the two
\* clocks in each other's place
CallCalcOffset ==
    /\ pc = "fn"
    /\ \E ctx \in FnStamps, prx \in FnStamps, ptx \in FnStamps, crx \in FnStamps :
       \E message \in {[ZeroMessage EXCEPT !.origts = TVtoNTP64(ctx), !.rxts = TVtoNTP64(prx),
                                           !.txts = TVtoNTP64(ptx)]} :
       \E swapped \in {[ZeroMessage EXCEPT !.origts = message.rxts, !.rxts = message.origts,
                                           !.txts = TVtoNTP64(crx)]} :
          call' = [fn |-> "calc_offset",
                   client_transmit |-> ctx, peer_receive |-> prx,
                   peer_transmit |-> ptx, client_receive |-> crx,
                   offset |-> calc_offset(message, crx),
                   swapped_offset |-> calc_offset(swapped, NTP64asDOUBLE(message.txts))]
    /\ FnIdle

FnNext == CallSetupRequest \/ CallConvert \/ CallCalcOffset

FnSpec == FnInit /\ [][FnNext]_vars

(* ------------------------------ check_real ----------------------------- *)
\* Characters are one-letter strings; "CR", "LF" and NUL stand for \r, \n
\* and the terminating zero; Unknown is a byte of the stack that was never
\* written and is not zero.
NUL == "NUL"
Unknown == "?"
NULL == "NULL"

\* sprintf at line 88, host h, port 554
OptionsRequest ==
    <<"O", "P", "T", "I", "O", "N", "S", " ", "r", "t", "s", "p", ":", "/", "/", "h", ":", "5",
      "5", "4", " ", "R", "T", "S", "P", "/", "1", ".", "0", "CR", "LF">>

\* line 95
CSeq1 ==
    <<"C", "S", "e", "q", ":", " ", "1", "CR", "LF">>

\* lines 102 and 184
CRLF ==
    <<"CR", "LF">>

\* sprintf at line 169, url /s
DescribeRequest ==
    <<"D", "E", "S", "C", "R", "I", "B", "E", " ", "r", "t", "s", "p", ":", "/", "/", "h", ":",
      "5", "5", "4", "/", "s", " ", "R", "T", "S", "P", "/", "1", ".", "0", "CR", "LF">>

\* line 177
CSeq2 ==
    <<"C", "S", "e", "q", ":", " ", "2", "CR", "LF">>

\* #define EXPECT
EXPECT ==
    <<"R", "T", "S", "P", "/", "1", ".">>

ReplyOk ==
    <<"R", "T", "S", "P", "/", "1", ".", "0", " ", "2", "0", "0", " ", "O", "K", "CR", "LF">>

ReplyNotFound ==
    <<"R", "T", "S", "P", "/", "1", ".", "0", " ", "4", "0", "4", " ", "N", "o", "t", " ", "F",
      "o", "u", "n", "d", "CR", "LF">>

ReplyServerError ==
    <<"R", "T", "S", "P", "/", "1", ".", "0", " ", "5", "0", "0", " ", "E", "r", "r", "o", "r",
      "CR", "LF">>

ReplyMoved ==
    <<"R", "T", "S", "P", "/", "1", ".", "0", " ", "3", "0", "2", " ", "M", "o", "v", "e", "d",
      "CR", "LF">>

ReplyNoise ==
    <<"B", "A", "D", "CR", "LF">>

ReplyHttp ==
    <<"H", "T", "T", "P", "/", "1", ".", "1", " ", "4", "0", "0", " ", "B", "a", "d", "CR",
      "LF">>

ReplyLong ==
    <<"H", "T", "T", "P", "/", "1", ".", "1", " ", "5", "0", "3", " ", "S", "e", "r", "v", "i",
      "c", "e", " ", "U", "n", "a", "v", "a", "i", "l", "a", "b", "l", "e", "CR", "LF">>

Code(a, b, c) == <<a, b, c>>

\* the first Len(s) bytes of the buffer are replaced
Overlay(buf, s) == [i \in 1 .. Len(buf) |-> IF i <= Len(s) THEN s[i] ELSE buf[i]]
sprintf(buf, s) == Overlay(buf, Append(s, NUL))

\* the string that starts at buffer[0]; it ends at the first NUL (the
\* modelled part of the buffer is followed by one)
RECURSIVE StrLen(_, _)
StrLen(buf, i) == IF i > Len(buf) \/ buf[i] = NUL THEN i - 1 ELSE StrLen(buf, i + 1)
CString(buf) == SubSeq(buf, 1, StrLen(buf, 1))

\* strstr(hay, needle) != NULL
strstr(hay, needle) ==
    \E i \in 1 .. (Len(hay) - Len(needle) + 1) : SubSeq(hay, i, i + Len(needle) - 1) = needle

\* strtok(str, "\n"): the first token
RECURSIVE TokenStart(_, _)
TokenStart(str, i) == IF i <= Len(str) /\ str[i] = "LF" THEN TokenStart(str, i + 1) ELSE i
RECURSIVE TokenEnd(_, _)
TokenEnd(str, i) == IF i > Len(str) \/ str[i] = "LF" THEN i - 1 ELSE TokenEnd(str, i + 1)
strtok(str) == SubSeq(str, TokenStart(str, 1), TokenEnd(str, TokenStart(str, 1)))

\* lines 134-160 and 215-245: the return code in the status line
StatusResult(status_line) ==
    IF strstr(status_line, Code("2", "0", "0")) THEN STATE_OK
    ELSE IF \E c \in {"0", "1", "2", "3", "4"} : strstr(status_line, Code("4", "0", c))
         THEN STATE_WARNING
    ELSE IF \E c \in {"0", "1", "2", "3"} : strstr(status_line, Code("5", "0", c))
         THEN STATE_CRITICAL
    ELSE STATE_UNKNOWN

\* the value of the enumerator (states.h)
StateNumber(st) ==
    CASE st = STATE_OK -> 0 [] st = STATE_WARNING -> 1
      [] st = STATE_CRITICAL -> 2 [] st = STATE_UNKNOWN -> 3

\* what recv() may deliver (an empty reply: the peer closed the connection)
Replies ==
    {<<>>, ReplyOk, ReplyNotFound, ReplyServerError, ReplyMoved, ReplyNoise, ReplyHttp, ReplyLong}
NoReply == <<"none">>
RealStart == {10}              \* time(&start_time)
RealElapsed == {0, 2}          \* seconds until time(&end_time)
InvalidResponse == "Invalid REAL response received from host"

RealInit ==
    /\ pc = "real"
    /\ quiet = FALSE
    /\ socket_timeout \in SocketTimeouts
    /\ time_offset \in TimeOffsets
    /\ SessionBlank
    /\ SelBlank
    /\ FnBlank
    /\ NtBlank
    /\ real \in {[at |-> "connect", died |-> FALSE,
                  server_expect |-> EXPECT, server_url |-> url,
                  check_warning_time |-> cw, warning_time |-> 1,
                  check_critical_time |-> cc, critical_time |-> 1,
                  buffer |-> [i \in 1 .. MaxBuffer |-> fill],
                  result |-> STATE_OK, status_line |-> NULL,
                  start_time |-> 0, end_time |-> 0,
                  options_reply |-> NoReply, describe_reply |-> NoReply,
                  printed |-> "", exit |-> NoStatus] :
                    url \in {NULL, "/s"}, cw \in BOOLEAN, cc \in BOOLEAN, fill \in {NUL, Unknown}}

RealIdle ==
    UNCHANGED <<pc, cfgVars, netVars, loopVars, oob, endVars, dieVars, resVars, selVars, fnVars, ntVars>>

\* die(): the message is printed and the process exits with the state
RealDie(state, message) ==
    real' = [real EXCEPT !.at = "done", !.died = TRUE, !.exit = state, !.printed = message]

\* lines 76-82: the start time and my_tcp_connect
RealConnect ==
    /\ pc = "real"
    /\ real.at = "connect"
    /\ \/ RealDie(STATE_CRITICAL, "Unable to connect")
       \/ \E now \in RealStart : real' = [real EXCEPT !.at = "options", !.start_time = now]
    /\ RealIdle

\* lines 119-161 and 199-246: the reply is looked for the expected string
\* and, when it is there, the status line gives the result
Examine(r, buf, elapsed) ==
    IF ~strstr(CString(buf), r.server_expect)
    THEN [r EXCEPT !.buffer = buf, !.printed = InvalidResponse]
    ELSE [r EXCEPT !.buffer = buf,
                   !.end_time = r.start_time + elapsed,
                   !.status_line = strtok(CString(buf)),
                   !.result = StatusResult(strtok(CString(buf)))]

\* lines 86-161: the OPTIONS exchange
RealOptions ==
    /\ pc = "real"
    /\ real.at = "options"
    /\ \/ \E m \in {"Sending options failed", "Sending header sync failed",
                    "Sending newline failed", "No data received"} : RealDie(STATE_CRITICAL, m)
       \/ \E reply \in Replies, elapsed \in RealElapsed :
          \E sent \in {sprintf(sprintf(sprintf(real.buffer, OptionsRequest), CSeq1), CRLF)} :
          \E r \in {Examine([real EXCEPT !.options_reply = reply], Overlay(sent, reply), elapsed)} :
             real' = [r EXCEPT !.at = IF r.result = STATE_OK /\ r.server_url # NULL
                                      THEN "describe" ELSE "report"]
    /\ RealIdle

\* lines 164-248: the DESCRIBE exchange; line 197 writes the terminating
\* zero at buffer[result]
RealDescribe ==
    /\ pc = "real"
    /\ real.at = "describe"
    /\ \/ RealDie(STATE_CRITICAL, "Sending DESCRIBE request failed")
       \/ real' = [real EXCEPT !.at = "report", !.result = STATE_CRITICAL,
                               !.printed = "No data received from host"]
       \/ \E reply \in Replies, elapsed \in RealElapsed :
          \E sent \in {sprintf(sprintf(sprintf(real.buffer, DescribeRequest), CSeq2), CRLF)} :
          \E buf \in {[Overlay(sent, reply) EXCEPT ![StateNumber(real.result) + 1] = NUL]} :
          \E r \in {Examine([real EXCEPT !.describe_reply = reply], buf, elapsed)} :
             real' = [r EXCEPT !.at = "report"]
    /\ RealIdle

\* lines 251-270: the response time against the thresholds, the output, exit
RealReport ==
    /\ pc = "real"
    /\ real.at = "report"
    /\ \E res \in {IF real.result # STATE_OK THEN real.result
                   ELSE IF real.check_critical_time
                           /\ real.end_time - real.start_time > real.critical_time
                        THEN STATE_CRITICAL
                   ELSE IF real.check_warning_time
                           /\ real.end_time - real.start_time > real.warning_time
                        THEN STATE_WARNING
                   ELSE STATE_OK} :
          real' = [real EXCEPT !.at = "done", !.result = res, !.exit = res,
                               !.printed = IF real.result = STATE_OK
                                           THEN "REAL - second response time"
                                           ELSE real.status_line]
    /\ RealIdle

RealNext == RealConnect \/ RealOptions \/ RealDescribe \/ RealReport

RealSpec == RealInit /\ [][RealNext]_vars

(* ------------------------------- check_nt ------------------------------ *)
MAX_VALUE_LIST == 30
NotNumeric == -1               \* a token of the -l list that is_numeric rejects

\* the -l list: (minutes, warning, critical) triples, then what ends them
NtBase == <<5, 50, 90>>
NtTriples == {NtBase, <<60, 90, 50>>, <<17280, 100, 100>>}
NtTails == {<<>>, <<5>>, <<5, 50>>, <<0, 50, 90>>, <<5, 101, 90>>, <<5, 50, NotNumeric>>}
NtUtilizations == {0, 60, 95}  \* strtoul(recv_buffer)
NtGarbage == {0, 50}           \* what the stack behind lvalue_list may hold
MaxTriples == MAX_VALUE_LIST \div 3

RECURSIVE Flatten(_)
Flatten(ts) == IF ts = <<>> THEN <<>> ELSE Head(ts) \o Flatten(Tail(ts))

RECURSIVE Repeat(_, _)
Repeat(t, k) == IF k <= 0 THEN <<>> ELSE t \o Repeat(t, k - 1)

NtLists ==
    {Flatten(pre) \o Repeat(NtBase, r) \o tail :
        pre \in UNION {[1 .. k -> NtTriples] : k \in 0 .. MaxNtPrefix},
        r \in 0 .. MaxTriples, tail \in NtTails}

\* the -l option: absent, or a list
NtInputs == {[given |-> TRUE, list |-> l] : l \in NtLists} \cup {[given |-> FALSE, list |-> <<>>]}

\* lines 613-629: the array is zeroed, then filled token by token; a token
\* that is not numeric, or one more than MAX_VALUE_LIST tokens, fails
strtoularray(tokens) ==
    [ok |-> \A k \in 1 .. Len(tokens) : tokens[k] # NotNumeric /\ (k - 1) < MAX_VALUE_LIST,
     array |-> [i \in 0 .. (MAX_VALUE_LIST - 1) |->
                  IF i < Len(tokens) /\ \A k \in 1 .. (i + 1) : tokens[k] # NotNumeric
                  THEN tokens[i + 1] ELSE 0]]

\* lvalue_list[i]; outside the array the value is whatever is stored there
ReadValue(array, i, garbage) == IF i < MAX_VALUE_LIST THEN array[i] ELSE garbage

InRange(v, max) == v > 0 /\ v <= max

\* variant: a warning is set whatever the return code is
ReturnCode_LastWins(return_code, utilization, warning, critical) ==
    IF utilization >= critical THEN STATE_CRITICAL
    ELSE IF utilization >= warning THEN STATE_WARNING
    ELSE return_code

\* lines 130-134
ReturnCode(return_code, utilization, warning, critical) ==
    IF utilization >= critical THEN STATE_CRITICAL
    ELSE IF utilization >= warning /\ StateNumber(return_code) < StateNumber(STATE_WARNING)
         THEN STATE_WARNING
    ELSE return_code

NtInit ==
    /\ pc = "nt"
    /\ quiet = FALSE
    /\ socket_timeout \in SocketTimeouts
    /\ time_offset \in TimeOffsets
    /\ SessionBlank
    /\ SelBlank
    /\ FnBlank
    /\ RealBlank
    /\ nt \in {[at |-> "start", given |-> in.given, value_list |-> in.list, lvalue_list |-> <<>>,
                offset |-> 0, return_code |-> STATE_UNKNOWN, requests |-> 0, max_read |-> -1,
                any_warning |-> FALSE, any_critical |-> FALSE, last |-> <<>>,
                died |-> FALSE, output |-> "", exit |-> NoStatus] :
                    in \in NtInputs}

NtIdle ==
    UNCHANGED <<pc, cfgVars, netVars, loopVars, oob, endVars, dieVars, resVars, selVars, fnVars,
                realVars>>

\* lines 437-450: the output and the return from main
NtReturn(r, message) == [r EXCEPT !.at = "done", !.output = message, !.exit = r.return_code]

\* lines 106-113: the -l list is looked at and converted
NtParse ==
    /\ pc = "nt"
    /\ nt.at = "start"
    /\ nt' = IF ~nt.given THEN NtReturn(nt, "missing -l parameters")
             ELSE IF ~strtoularray(nt.value_list).ok THEN NtReturn(nt, "wrong -l parameter.")
             ELSE [nt EXCEPT !.at = "loop", !.return_code = STATE_OK,
                             !.lvalue_list = strtoularray(nt.value_list).array]
    /\ NtIdle

\* lines 118-151: the test of the while loop and either one pass of it or
\* what follows the loop.  The three conditions are tested from the left,
\* each one reading its element of lvalue_list.
NtTriple ==
    /\ pc = "nt"
    /\ nt.at = "loop"
    /\ \E stack \in {IF nt.offset < MAX_VALUE_LIST + 3 * MaxOverrun THEN NtGarbage ELSE {0}} :
       \E minutes \in {ReadValue(nt.lvalue_list, nt.offset, g) : g \in stack},
          warning \in {ReadValue(nt.lvalue_list, nt.offset + 1, g) : g \in stack},
          critical \in {ReadValue(nt.lvalue_list, nt.offset + 2, g) : g \in stack} :
       \E r \in {[nt EXCEPT !.max_read =
                     IF ~InRange(minutes, 17280) THEN nt.offset
                     ELSE IF ~InRange(warning, 100) THEN nt.offset + 1
                     ELSE nt.offset + 2]} :
          IF InRange(minutes, 17280) /\ InRange(warning, 100) /\ InRange(critical, 100)
          THEN \/ \* fetch_data: the request failed, or the answer is an error
                  \E st \in {STATE_CRITICAL, STATE_UNKNOWN} :
                     nt' = [r EXCEPT !.at = "done", !.died = TRUE, !.exit = st,
                                     !.requests = @ + 1,
                                     !.output = "could not fetch information from server"]
               \/ \E utilization \in NtUtilizations :
                     nt' = [r EXCEPT !.requests = @ + 1,
                                     !.return_code = ReturnCode(@, utilization, warning, critical),
                                     !.any_warning = @ \/ utilization >= warning,
                                     !.any_critical = @ \/ utilization >= critical,
                                     !.last = <<utilization, warning, critical>>,
                                     !.offset = @ + 3]
          ELSE nt' = NtReturn(r, IF r.requests > 0 THEN "CPU Load"
                                 ELSE "not enough values for -l parameters")
    /\ NtIdle

NtNext == NtParse \/ NtTriple

NtSpec == NtInit /\ [][NtNext]_vars

(* ======================= properties of the session ===================== *)
Budget == socket_timeout \div 2
Elapsed == now_time - start_ts
Responses(i) == servers[i].num_responses
AllPeersComplete == \A i \in DOMAIN servers : Responses(i) = AVG_NUM
NoPeerResponded == \A i \in DOMAIN servers : Responses(i) = 0
NormalExit == pc = "done" /\ die_message = ""
\* the step that ends offset_request after the loop, and its two outcomes
AfterLoopStep == pc = "after_loop" /\ pc' # "after_loop"
RaisesNoResponse == pc' = "done" /\ die_message' = NoResponseMessage
\* a peer whose socket was associated and which sends nothing
SilentPeer(p) == ufds[p].fd = SockFd(p) /\ delivers[p] = "nothing"
DiscardedByFilter(i) == servers[i].stratum = 0 \/ (servers[i].flags \div 64) % 4 = 3

\* C1: the sampling loop is left exactly when every resolved peer has
\* AVG_NUM responses or the time since start_ts, as last read, exceeds
\* socket_timeout/2: a pass of the loop is made only while neither holds,
\* and the loop is left only when one of them holds.  With a clock that
\* keeps advancing the loop is always left, whatever the number of peers
\* and whichever of them never respond.
C1_LoopEndsOnCompletionOrBudget ==
    /\ [][(pc = "loop" /\ pc' = "after_loop") => (AllPeersComplete \/ Elapsed > Budget)]_vars
    /\ [][(pc = "loop" /\ pc' # "after_loop") => (~AllPeersComplete /\ Elapsed <= Budget)]_vars
    /\ ((pc = "loop") ~> (pc # "loop"))

C1_Witness ==
    /\ pc = "after_loop"
    /\ Elapsed > Budget
    /\ \E i \in DOMAIN servers : Responses(i) > 0 /\ Responses(i) < AVG_NUM
    /\ \E i \in DOMAIN servers : Responses(i) = 0

C5_QuietGivesUnknown ==
    (NormalExit /\ best_index = -1) =>
        exit_state = (IF quiet THEN STATE_UNKNOWN ELSE STATE_CRITICAL)

\* C9: in every state of a session each peer has 0 <= num_responses <=
\* AVG_NUM, the samples written to offset[] are those at the indices
\* 0 .. num_responses-1, and no sample was written outside 0 .. AVG_NUM-1.
C9_ResponseCountBounded ==
    /\ ~oob
    /\ \A i \in DOMAIN servers :
        /\ Responses(i) \in 0 .. AVG_NUM
        /\ writes[i] = 0 .. (Responses(i) - 1)
        /\ Cardinality(writes[i]) = Responses(i)
        /\ writes[i] \subseteq 0 .. (AVG_NUM - 1)

C9_Witness ==
    pc = "loop" /\ \E i \in DOMAIN servers : Responses(i) = AVG_NUM /\ writes[i] = 0 .. (AVG_NUM - 1)

\* C10: data shorter than 48 bytes is no sample: a pass of the loop leaves
\* the num_responses, offset[], stratum, flags, rtdisp and rtdelay of a
\* peer whose descriptor delivers only short datagrams as they were, and
\* if no other peer was read nothing is counted as a response.
C10_ShortDatagramIgnored ==
    [][\A i \in DOMAIN servers :
          (pc = "loop" /\ pc' = "loop" /\ delivers[i] = "short") =>
              /\ servers'[i].num_responses = servers[i].num_responses
              /\ servers'[i].offset = servers[i].offset
              /\ servers'[i].stratum = servers[i].stratum
              /\ servers'[i].flags = servers[i].flags
              /\ servers'[i].rtdisp = servers[i].rtdisp
              /\ servers'[i].rtdelay = servers[i].rtdelay
              /\ ((\A j \in DOMAIN servers : j # i =>
                      servers'[j].num_responses = servers[j].num_responses)
                  => (one_read' = one_read /\ servers_completed' = servers_completed))]_vars

\* a peer whose connect() failed: ufds[p] was never written
Unconnected(p) == ufds[p].fd # SockFd(p)

\* C11: as claimed, a peer whose connect() failed is excluded for the rest
\* of the session: no pass of the loop addresses a request to it (it is not
\* the peer chosen at lines 404-417 and its waiting stamp stays as it was)
\* and its descriptor entry yields no read (its num_responses stays as it
\* was).
C11_FailedPeerExcluded ==
    [][(pc = "loop" /\ pc' = "loop") =>
          \A p \in DOMAIN ufds : Unconnected(p) =>
              /\ SendTarget(servers, num_hosts, now_time') # p
              /\ servers'[p].waiting = servers[p].waiting
              /\ servers'[p].num_responses = servers[p].num_responses]_vars

\* C12: as claimed, a session ends as a failure only by the resolution
\* failure or by the "No response" failure; in particular an error of
\* socket() or of poll() never ends the process.  (The allocation failures
\* of lines 345-364, which the claim does not speak of, are let pass.)
C12_OnlyResolutionAndNoResponseAbort ==
    (pc = "done" /\ die_message # "") =>
        /\ die_message \notin {"can not create new socket", "communication errors"}
        /\ die_message \in {ResolveMessage, NoResponseMessage,
                            "can not allocate ntp message array",
                            "can not allocate socket array", "can not allocate server array"}

\* the program itself closed every socket it opened and freed the list
Released == open_socks = {} /\ ~addresses

\* C13: as claimed, on every path that leaves offset_request (the return
\* to main and every exit of the process) all sockets that were opened
\* are closed and the address list is freed.
C13_ReleasedOnEveryExit == pc \in {"main", "done"} => Released

C15_ThresholdsOnlyWhenSelected ==
    NormalExit =>
        /\ best_index >= -1
        /\ best_index >= 0 =>
              /\ offset_result # STATE_UNKNOWN
              /\ avg_offset \in Int
              /\ result = get_status(Abs(avg_offset), Thresholds)
              /\ output.perfdata /\ output.offset = avg_offset
        /\ best_index = -1 =>
              /\ offset_result = STATE_UNKNOWN
              /\ result \in {STATE_UNKNOWN, STATE_CRITICAL}
              /\ result # get_status(Abs(avg_offset), Thresholds)
              /\ output.text = "Offset unknown" /\ ~output.perfdata
              /\ "offset" \notin DOMAIN output
        /\ exit_state = result

C15_Witness ==
    /\ NormalExit
    /\ best_index = -1
    /\ quiet
    /\ result # get_status(Abs(avg_offset), Thresholds)
    /\ ~output.perfdata

\* C19: the step after getaddrinfo either ends the process with state
\* UNKNOWN and the resolution message, or goes on with a list of at least
\* one address; the resolution failure is raised only from that step, when
\* no array is allocated, no socket is open and no request was sent, and
\* it is neither the "No response" nor an allocation failure.
C19_ResolutionErrorFirst ==
    /\ [][(pc = "resolve" /\ pc' # "resolve") =>
            \/ /\ pc' = "done"
               /\ exit_state' = STATE_UNKNOWN
               /\ die_message' = ResolveMessage
               /\ open_socks' = {} /\ ~addresses'
            \/ /\ pc' = "alloc"
               /\ num_hosts' >= 1 /\ addresses'
               /\ die_message' = ""]_vars
    /\ [][(pc' = "done" /\ die_message' = ResolveMessage) =>
            /\ pc = "resolve"
            /\ servers = EmptyFn /\ ufds = EmptyFn /\ req = EmptyFn
            /\ open_socks = {}]_vars
    /\ [](num_hosts = 0 => pc \in {"resolve", "main", "done", "select"})

C19_Witness ==
    /\ pc = "done"
    /\ die_message = ResolveMessage
    /\ exit_state = STATE_UNKNOWN
    /\ open_socks = {}

\* a pass of the while loop that came to its end (poll() did not fail)
LoopPass == pc = "loop" /\ pc' = "loop"

\* C21: in each pass of the sampling loop at most one request is sent; it
\* goes to the lowest-index peer that has fewer than AVG_NUM responses and
\* whose waiting marker is below the current second, and there is one
\* whenever such a peer exists; the send sets the peer's waiting marker to
\* the current second (a response read in the same pass resets it to 0).
\* Hence a peer that was sent a request and has not answered is not sent
\* another one within the same second, and the next pass in that second
\* serves a later peer, or an earlier one that answered in between.
C21_OneRequestToFirstEligible ==
    [][LoopPass =>
        LET now == now_time'
            el == {i \in Peers : servers[i].num_responses < AVG_NUM /\ servers[i].waiting < now}
        IN  /\ Cardinality(pass'.sent) <= 1
            /\ (el = {}) <=> (pass'.sent = {})
            /\ \A i \in pass'.sent :
                  /\ i \in el
                  /\ \A j \in el : i <= j
                  /\ \/ servers'[i].waiting = now
                     \/ i \in pass'.readable /\ servers'[i].waiting = 0
            /\ \A i \in pass.sent, j \in pass'.sent :
                  (now = now_time /\ servers[i].waiting = now_time)
                  => (j # i /\ (j < i => j \in pass.readable))]_vars

C21_Witness ==
    /\ pc = "loop"
    /\ num_hosts >= 2
    /\ pass.sent = {1}
    /\ servers[0].waiting = now_time
    /\ servers[1].waiting = now_time
    /\ servers[0].num_responses = 0

\* peer i was reported readable in the pass while below the sample target
ReadInPass(i) == i \in pass'.readable /\ servers[i].num_responses < AVG_NUM

\* C22: in a pass of the loop, every peer reported readable while below
\* AVG_NUM responses gets exactly one sample, written at index
\* num_responses and computed by calc_offset from the message read plus the
\* time offset; its stratum, dispersion, delay and flags become those of
\* the message read, its waiting marker becomes 0 and its count grows by
\* one; servers_completed grows by the number of peers that reached
\* AVG_NUM.  Every other peer, a peer at the target in particular, keeps
\* its record (but for the waiting marker of the peer just sent to).
C22_ReceiveStep ==
    [][LoopPass =>
        /\ \A i \in Peers :
              IF ReadInPass(i)
              THEN /\ servers'[i].num_responses = servers[i].num_responses + 1
                   /\ \A m \in 0 .. (AVG_NUM - 1) :
                         m # servers[i].num_responses
                         => servers'[i].offset[m] = servers[i].offset[m]
                   /\ servers'[i].offset[servers[i].num_responses]
                         = calc_offset(req'[i], now_time') + 2 * time_offset
                   /\ writes'[i] = writes[i] \cup {servers[i].num_responses}
                   /\ servers'[i].stratum = req'[i].stratum
                   /\ servers'[i].rtdisp = NTP32asDOUBLE(req'[i].rtdisp)
                   /\ servers'[i].rtdelay = NTP32asDOUBLE(req'[i].rtdelay)
                   /\ servers'[i].flags = req'[i].flags
                   /\ servers'[i].waiting = 0
              ELSE /\ servers'[i] = [servers[i] EXCEPT
                                        !.waiting = IF i \in pass'.sent THEN now_time' ELSE @]
                   /\ writes'[i] = writes[i]
        /\ \A i \in Peers : servers[i].num_responses = AVG_NUM => servers'[i] = servers[i]
        /\ servers_completed' = servers_completed
              + Cardinality({i \in Peers : ReadInPass(i)
                                           /\ servers[i].num_responses + 1 = AVG_NUM})]_vars

\* a peer reported readable in the last pass holds all its samples, and the
\* loop goes on for another peer
C22_Witness ==
    /\ pc = "loop"
    /\ \E i \in DOMAIN servers :
          /\ i \in pass.readable
          /\ i \notin pass.sent
          /\ servers[i].num_responses = AVG_NUM
          /\ servers[i].stratum = 1
          /\ writes[i] = 0 .. (AVG_NUM - 1)
    /\ servers_completed < num_hosts

\* C25: during the session a peer without a response keeps the stratum 0
\* of its zeroed record; when offset_request selects a peer after the loop,
\* that peer has at least one response, so the mean is a quotient by a
\* count of 1 or more, and a peer that never responded is not selected.
C25_SelectedPeerResponded ==
    /\ [](pc \in {"loop", "after_loop"} =>
            \A i \in DOMAIN servers : Responses(i) = 0 => servers[i].stratum = 0)
    /\ [][(AfterLoopStep /\ pc' = "main") =>
            /\ \A i \in DOMAIN servers : Responses(i) = 0 => best_index' # i
            /\ best_index' >= 0 =>
                  /\ Responses(best_index') >= 1
                  /\ servers[best_index'].stratum # 0
                  /\ avg_offset' \in Int]_vars

\* the second peer was selected; the first one never responded
C25_Witness ==
    /\ NormalExit
    /\ best_index = 1
    /\ avg_offset \in Int
    /\ output.text = "Offset"

C27_CountersAgree ==
    /\ [](pc \in {"loop", "after_loop"} =>
            /\ servers_completed = Cardinality({i \in DOMAIN servers : Responses(i) = AVG_NUM})
            /\ one_read <=> (\E i \in DOMAIN servers : Responses(i) >= 1))
    /\ [][LoopPass =>
            servers_completed' - servers_completed =
                Cardinality({i \in DOMAIN servers :
                                Responses(i) < AVG_NUM /\ servers'[i].num_responses = AVG_NUM})]_vars

\* one of two peers is complete, the other has no response
C27_Witness ==
    /\ pc = "loop"
    /\ num_hosts = 2
    /\ servers_completed = 1
    /\ one_read
    /\ \E i \in DOMAIN servers : Responses(i) = 0
    /\ \E i \in DOMAIN servers : Responses(i) = AVG_NUM

(* ================== properties of the functions on their own =========== *)
\* C16: every message built by setup_request has the flags byte from which
\* LI, VN and MODE read 3, 4 and 3, poll 4, precision -6, delay and
\* dispersion 1 second, the transmit timestamp of the current time, and
\* stratum, reference id, reference, originate and receive timestamps zero.
C16_RequestFields ==
    call.fn = "setup_request" =>
        /\ LI(call.message.flags) = 3
        /\ VN(call.message.flags) = 4
        /\ MODE(call.message.flags) = 3
        /\ call.message.flags = 227
        /\ call.message.poll = 4
        /\ call.message.precision = -6
        /\ NTP32asDOUBLE(call.message.rtdelay) = 65536
        /\ NTP32asDOUBLE(call.message.rtdisp) = 65536
        /\ call.message.txts # Zero64
        /\ NTP64asDOUBLE(call.message.txts) = call.now
        /\ call.message.stratum = 0
        /\ call.message.refid = 0
        /\ call.message.refts = Zero64
        /\ call.message.origts = Zero64
        /\ call.message.rxts = Zero64

C16_Witness ==
    /\ call.fn = "setup_request"
    /\ call.now = 1793505600
    /\ call.message.flags = 227
    /\ call.message.poll = 4

\* C17: as claimed, for every time of day the encoding decoded again, as a
\* double and as a timeval, is the same time (the double within 1e-6 s);
\* the all-zero time encodes to raw 0 and raw 0 decodes to 0 seconds.
C17_RoundTrip ==
    call.fn = "TVtoNTP64" =>
        /\ (call.t.tv_sec = 0 /\ call.t.tv_usec = 0) => call.raw = Raw64Zero
        /\ call.raw = Raw64Zero =>
              /\ call.double = [sec |-> [wrapped |-> FALSE, mag |-> U32(0, 0)], e8 |-> 0]
              /\ call.tv = [tv_sec |-> [wrapped |-> FALSE, mag |-> U32(0, 0)], tv_usec |-> 0]
        /\ call.double.sec = [wrapped |-> FALSE, mag |-> ToU32(call.t.tv_sec)]
        /\ Abs(call.double.e8 - (100 * call.t.tv_usec)) <= 50
        /\ call.tv = [tv_sec |-> [wrapped |-> FALSE, mag |-> ToU32(call.t.tv_sec)],
                      tv_usec |-> call.t.tv_usec]

\* the last second of the NTP era that began in 1900: 2036-02-07 06:28:15 UTC
LastSecondOfEra == 2085978495

\* the same round trip for the times up to the end of the era
RoundTripWithinEra == call.fn = "TVtoNTP64" /\ call.t.tv_sec <= LastSecondOfEra => C17_RoundTrip

Incorrect(reply) ==
    reply # NoReply /\ reply # <<>> /\ ~strstr(reply, real.server_expect)

\* C20: as claimed, a run of check_real that connected, did not fail in
\* send() or recv() and received, in the OPTIONS or in the DESCRIBE
\* exchange, a reply without the expected string exits with STATE_WARNING.
C20_IncorrectResponseIsWarning ==
    (pc = "real" /\ real.at = "done" /\ ~real.died
        /\ (Incorrect(real.options_reply) \/ Incorrect(real.describe_reply)))
    => real.exit = STATE_WARNING

(* ==================== properties of best_offset_server ================= *)
SelKept == {i \in DOMAIN sel_list : sel_list[i].stratum # 0 /\ sel_list[i].flags \div 64 # 3}

\* C6: for every list, best_offset_server never returns the index of a
\* peer with stratum 0 or with leap indicator ALARM.
C6_NeverSelectsDiscarded ==
    pc = "select" =>
        (sel_index >= 0 =>
            /\ sel_index \in DOMAIN sel_list
            /\ sel_list[sel_index].stratum # 0
            /\ sel_list[sel_index].flags \div 64 # 3)

C6_Witness ==
    /\ pc = "select"
    /\ sel_index >= 0
    /\ \E i \in DOMAIN sel_list : sel_list[i].stratum = 0
    /\ \E i \in DOMAIN sel_list : sel_list[i].stratum # 0 /\ sel_list[i].flags \div 64 = 3

\* C7: best_offset_server returns -1 exactly when the list is empty or
\* every peer is discarded; otherwise it returns an index in 0..nservers-1.
C7_NoneExactlyWhenAllDiscarded ==
    pc = "select" =>
        /\ (sel_index = -1) <=> (SelKept = {})
        /\ sel_index # -1 => sel_index \in 0 .. (SelLen - 1)

C7_Witness ==
    /\ pc = "select"
    /\ SelLen >= 2
    /\ sel_index = -1
    /\ \E i \in DOMAIN sel_list : sel_list[i].stratum # 0

\* C8: when all kept peers have the same stratum and the same dispersion,
\* the result is the lowest index among the kept peers of minimum delay;
\* for [{1,1,5},{1,1,3},{0,0,0}] (stratum, dispersion, delay; leap ok) it is 1.
C8Example ==
    [i \in 0 .. 2 |->
        CASE i = 0 -> [stratum |-> 1, flags |-> 36, rtdisp |-> 1, rtdelay |-> 5]
          [] i = 1 -> [stratum |-> 1, flags |-> 36, rtdisp |-> 1, rtdelay |-> 3]
          [] i = 2 -> [stratum |-> 0, flags |-> 36, rtdisp |-> 0, rtdelay |-> 0]]

C8_LowestDelayBreaksTie ==
    pc = "select" =>
        /\ (/\ SelKept # {}
            /\ \A i, j \in SelKept :
                  sel_list[i].stratum = sel_list[j].stratum /\ sel_list[i].rtdisp = sel_list[j].rtdisp)
           => /\ sel_index \in SelKept
              /\ \A j \in SelKept : sel_list[sel_index].rtdelay <= sel_list[j].rtdelay
              /\ \A j \in SelKept :
                    sel_list[j].rtdelay = sel_list[sel_index].rtdelay => sel_index <= j
        /\ sel_list = C8Example => sel_index = 1

C8_Witness == pc = "select" /\ sel_list = C8Example /\ sel_index = 1

\* C23: best_offset_server makes one pass from left to right.  With one
\* more peer at the end of the list, the result stays when that peer is
\* rejected; it is the new peer when no peer was kept before; otherwise the
\* new peer replaces the best one if and only if its stratum is <=, its
\* dispersion is <= and its delay is < that of the best one.
C23_ReplacementRule ==
    [][(pc = "select" /\ SelLen' = SelLen + 1) =>
        LET p == sel_list'[SelLen]
        IN  IF p.stratum = 0 \/ p.flags \div 64 = 3 THEN sel_index' = sel_index
            ELSE IF sel_index = -1 THEN sel_index' = SelLen
            ELSE IF /\ p.stratum <= sel_list[sel_index].stratum
                    /\ p.rtdisp <= sel_list[sel_index].rtdisp
                    /\ p.rtdelay < sel_list[sel_index].rtdelay
                 THEN sel_index' = SelLen
            ELSE sel_index' = sel_index]_vars

\* a peer of worse stratum and lower delay did not replace the first peer,
\* the peer after it did
C23_Witness ==
    /\ pc = "select"
    /\ SelLen = 3
    /\ sel_index = 2
    /\ \A i \in DOMAIN sel_list : sel_list[i].flags = 36
    /\ sel_list[0].stratum = 1
    /\ sel_list[1].stratum = 2
    /\ sel_list[1].rtdelay < sel_list[0].rtdelay
    /\ sel_list[1].rtdisp <= sel_list[0].rtdisp

\* C28: the peer returned by best_offset_server is not dominated: no other
\* kept peer of the list has a stratum <=, a dispersion <= and a delay <
\* that of the returned peer, whatever the list and the order of its peers.
C28_SelectedNotDominated ==
    (pc = "select" /\ sel_index >= 0) =>
        \A j \in SelKept \ {sel_index} :
            ~(/\ sel_list[j].stratum <= sel_list[sel_index].stratum
              /\ sel_list[j].rtdisp <= sel_list[sel_index].rtdisp
              /\ sel_list[j].rtdelay < sel_list[sel_index].rtdelay)

\* the first of three kept peers is returned though both later peers have
\* a lower delay
C28_Witness ==
    /\ pc = "select"
    /\ SelKept = 0 .. 2
    /\ sel_index = 0
    /\ sel_list[1].rtdelay < sel_list[0].rtdelay
    /\ sel_list[2].rtdelay < sel_list[0].rtdelay

(* ================ properties of the selection under reordering ========= *)
Triple(p) == <<p.stratum, p.rtdisp, p.rtdelay>>
Dominates(a, b) == a.stratum <= b.stratum /\ a.rtdisp <= b.rtdisp /\ a.rtdelay < b.rtdelay
Reordered == pc = "order" /\ call.fn = "best_offset_server"
SameChoice ==
    \/ sel_index = -1 /\ call.index = -1
    \/ /\ sel_index >= 0
       /\ call.index >= 0
       /\ Triple(sel_list[sel_index]) = Triple(call.slist[call.index])

\* C29, as claimed: for two orderings of the same peer results whose kept
\* members differ pairwise in (stratum, dispersion, delay), the selected
\* peers have the same stratum, dispersion and delay.
C29_OrderIndependent ==
    (Reordered /\ \A i, j \in SelKept : i # j => Triple(sel_list[i]) # Triple(sel_list[j]))
    => SameChoice

\* C29, amended: when one kept peer is better than every other kept peer
\* (stratum <=, dispersion <=, delay <), it is the peer selected in every
\* ordering of the list.
C29_OrderIndependentWithBest ==
    Reordered =>
        \A m \in SelKept :
            (\A j \in SelKept \ {m} : Dominates(sel_list[m], sel_list[j]))
            => /\ sel_index = m
               /\ call.index >= 0
               /\ call.slist[call.index] = sel_list[m]

\* three kept peers, the best one last in one ordering and first in the other
C29_Witness ==
    /\ Reordered
    /\ SelKept = 0 .. 2
    /\ sel_index = 2
    /\ call.index = 0
    /\ \A j \in {0, 1} : Dominates(sel_list[2], sel_list[j])

(* ========================== properties of check_nt ===================== *)
NtReturned == pc = "nt" /\ nt.at = "done" /\ ~nt.died /\ nt.requests > 0

\* C24: when the CPULOAD check returns after one or more triples, the
\* return code is CRITICAL if the utilization of some triple was >= its
\* critical threshold, otherwise WARNING if the utilization of some triple
\* was >= its warning threshold, otherwise OK; and a pass of the loop never
\* takes the return code away from CRITICAL.
C24_WorstOfTriples ==
    /\ [](NtReturned =>
            /\ nt.exit = nt.return_code
            /\ nt.return_code = IF nt.any_critical THEN STATE_CRITICAL
                                ELSE IF nt.any_warning THEN STATE_WARNING
                                ELSE STATE_OK)
    /\ [][(pc = "nt" /\ nt.at = "loop" /\ nt.return_code = STATE_CRITICAL)
            => (nt'.died \/ nt'.return_code = STATE_CRITICAL)]_vars

\* a triple in the critical range was followed by one in the warning range
C24_Witness ==
    /\ NtReturned
    /\ nt.requests = 2
    /\ nt.any_critical
    /\ nt.last = <<60, 50, 90>>
    /\ nt.exit = STATE_CRITICAL

\* C30, as claimed: for every -l list that strtoularray accepts, the loop
\* reads lvalue_list only at indices 0 .. MAX_VALUE_LIST-1 and makes at most
\* MAX_VALUE_LIST/3 = 10 requests.
C30_ReadsWithinArray ==
    (pc = "nt" /\ nt.at # "start") =>
        /\ nt.max_read < MAX_VALUE_LIST
        /\ nt.requests <= MaxTriples

====
